---- MODULE Spec2Model ----
(***************************************************************************)
(* The task-manager client: the HTTP client wrapper (services/api.js), the *)
(* two auth request functions (services/authService.js) and the App and    *)
(* AuthForm components (App.js).                                           *)
(*                                                                         *)
(* One action is one run of JavaScript to completion: an event handler up  *)
(* to its first await, or the continuation of a handler after the awaited  *)
(* response, each followed by React's re-render and the effects whose      *)
(* dependencies changed.  The remote API is the environment: it answers    *)
(* any request in flight, in any order, with any status.                   *)
(***************************************************************************)
EXTENDS Integers, Sequences, FiniteSets, Bags, TLC

(* ------------------------------ bounds -------------------------------- *)
NumTokens == 2          \* distinct tokens the server may issue
NumTasks == 1           \* task identifiers the server may list
MaxInFlight == 2        \* a user action starts a request only below this
MaxErrors == 2          \* length of a server-supplied errors array

(* ------------------------------ values -------------------------------- *)
None == 0                                \* localStorage.getItem -> null
Tokens == 1..NumTokens
TaskIds == 1..NumTasks
Statuses == {"pending", "done"}
Null == "<null>"                         \* a null stored in fieldErrors
NetErr == 0                              \* no err.response: network error
OK == 200
FailStatuses == {400, 401, 500, NetErr}
Paths == {"title", "description"}
\* the msg of the n-th error of an answer
Msg(n) == CASE n = 1 -> "first" [] n = 2 -> "second" [] n = 3 -> "third"
            [] OTHER -> "later"

NoTask == [id |-> 0, title |-> "", description |-> "", status |-> ""]
Task(i, s) == [id |-> i, title |-> "a", description |-> "d", status |-> s]

RECURSIVE ListsOver(_)
\* the lists GET /tasks may return: tasks with identifiers up to n, each
\* identifier at most once, in increasing order
ListsOver(n) ==
  IF n = 0 THEN {<<>>}
  ELSE LET prev == ListsOver(n - 1) IN
       prev \cup {Append(l, Task(n, s)) : l \in prev, s \in Statuses}
TaskLists == ListsOver(NumTasks)

RECURSIVE ErrorsUpTo(_)
\* err.response.data.errors: an array of {path, msg}, of length up to n;
\* each error has a message of its own
ErrorsUpTo(n) ==
  IF n = 0 THEN {<<>>}
  ELSE LET prev == ErrorsUpTo(n - 1) IN
       prev \cup {Append(q, [path |-> p, msg |-> Msg(n)]) :
                    q \in {e \in prev : Len(e) = n - 1}, p \in Paths}
ErrorLists == ErrorsUpTo(MaxErrors)

EmptyMap == [k \in {} |-> ""]
Put(f, k, v) == [x \in (DOMAIN f) \cup {k} |-> IF x = k THEN v ELSE f[x]]
Get(f, k) == IF k \in DOMAIN f THEN f[k] ELSE ""
Truthy(v) == v # "" /\ v # Null

(* ------------------------ services/api.js ----------------------------- *)
NoHeader == <<>>
\* mutant: the header is attached without testing the token
InterceptorUnguarded(stored) == <<"Bearer", stored>>
\* the request interceptor: reads the token and attaches the header
Interceptor(stored) == IF stored # None THEN <<"Bearer", stored>> ELSE NoHeader

NoParams == [status |-> "", q |-> ""]
NoCred == [email |-> <<>>, password |-> <<>>]
NoClosure == [filterQ |-> "", filterStatus |-> "", editing |-> FALSE]
\* a request on the wire, with what its awaiting handler closed over; body
\* has the shape of a task, id 0 where the body carries no identifier
Request(kind, stored, id, params, body, cred, closure) ==
  [kind |-> kind, Authorization |-> Interceptor(stored), id |-> id,
   params |-> params, body |-> body, cred |-> cred, closure |-> closure]

(* ----------------------- App.js: AuthForm ----------------------------- *)
\* text is a tuple of one-character strings
Whitespace == {" "}
UpperCase == {"A","B","C","D","E","F","G","H","I","J","K","L","M",
              "N","O","P","Q","R","S","T","U","V","W","X","Y","Z"}
LowerCase == {"a","b","c","d","e","f","g","h","i","j","k","l","m",
              "n","o","p","q","r","s","t","u","v","w","x","y","z"}
Digits == {"0","1","2","3","4","5","6","7","8","9"}
Specials == {"@","$","!","%","*","?","&"}
MinPasswordLen == 8

\* [^\s@]+ on s[a..b]
LocalPart(s, a, b) ==
  a <= b /\ \A k \in a..b : s[k] \notin Whitespace /\ s[k] # "@"
\* /^[^\s@]+@[^\s@]+\.[^\s@]+$/
emailRegex(s) ==
  \E i \in 1..Len(s) : \E j \in 1..Len(s) :
    /\ i < j /\ s[i] = "@" /\ s[j] = "."
    /\ LocalPart(s, 1, i - 1)
    /\ LocalPart(s, i + 1, j - 1)
    /\ LocalPart(s, j + 1, Len(s))
Has(s, class) == \E k \in 1..Len(s) : s[k] \in class

validateEmail(value) ==
  IF Len(value) = 0 THEN "Email is required"
  ELSE IF ~emailRegex(value) THEN "Invalid email"
  ELSE ""

validatePassword(value, login) ==
  IF Len(value) = 0 THEN "Password is required"
  ELSE IF ~login /\ Len(value) < MinPasswordLen
    THEN "Password must be at least 8 characters"
  ELSE IF ~login /\ ~Has(value, UpperCase) THEN "Must contain an uppercase letter"
  ELSE IF ~login /\ ~Has(value, LowerCase) THEN "Must contain a lowercase letter"
  ELSE IF ~login /\ ~Has(value, Digits) THEN "Must contain a number"
  ELSE IF ~login /\ ~Has(value, Specials)
    THEN "Must contain a special character @$!%*?&"
  ELSE ""

\* what the user may type into the two inputs
GoodEmail == <<"a", "@", "b", ".", "c">>
GoodPassword == <<"A", "b", "c", "d", "e", "f", "1", "!">>
Emails == {<<>>, GoodEmail, <<"a", "@", "b">>, <<"a", " ", "@", "b", ".", "c">>,
           <<"a", "@", "b", ".", "c", ".", "d">>}
Passwords == {<<>>, GoodPassword, <<"a", "b", "c">>,
              <<"a", "b", "c", "d", "e", "f", "1", "!">>,
              <<"A", "B", "C", "D", "E", "F", "1", "!">>,
              <<"A", "b", "c", "d", "e", "f", "g", "!">>,
              <<"A", "b", "c", "d", "e", "f", "1", "#">>}
ServerMessages == {"", "Invalid credentials"}
\* err.response.data.errors of an auth answer: only errors[0].msg is read
AuthErrorLists == {<<>>} \cup {<<[path |-> "email", msg |-> m]>> : m \in {"", "taken"}}

\* err.response?.data?.errors?.[0]?.msg || err.response?.data?.message || 'Auth failed'
AuthFailMsg(status, errors, message) ==
  IF status # NetErr /\ Len(errors) > 0 /\ errors[1].msg # "" THEN errors[1].msg
  ELSE IF status # NetErr /\ message # "" THEN message
  ELSE "Auth failed"

(* --------------------------- App.js: App ------------------------------ *)
FilterQs == {"", "a"}
FilterStatuses == {"", "pending", "done"}
Titles == {"", "a"}
Descriptions == {"", "d"}

VARIABLES
  token,            \* localStorage 'token': None or a token
  mounted,          \* the mount effect has run
  userLoaded, tasks, filterQ, filterStatus, title, description,
  editingTask, fieldErrors, toast, showDeleteModal, deleteTaskId,
  isLogin, email, password, authFieldErrors, loading,     \* AuthForm
  net,              \* the bag of requests awaiting their response
  lastSent          \* the requests the step taken last handed to the client

appVars == <<userLoaded, tasks, filterQ, filterStatus, title, description,
             editingTask, fieldErrors, toast, showDeleteModal, deleteTaskId>>
authVars == <<isLogin, email, password, authFieldErrors, loading>>
vars == <<token, mounted, appVars, authVars, net, lastSent>>

Toast(msg, variant) == [show |-> TRUE, msg |-> msg, variant |-> variant]

Init ==
  /\ token \in {None, 1}          \* nothing stored, or the token of an earlier visit
  /\ mounted = FALSE
  /\ userLoaded = FALSE
  /\ tasks = <<>>
  /\ filterQ = "" /\ filterStatus = ""
  /\ title = "" /\ description = ""
  /\ editingTask = NoTask
  /\ fieldErrors = EmptyMap
  /\ toast = [show |-> FALSE, msg |-> "", variant |-> "success"]
  /\ showDeleteModal = FALSE /\ deleteTaskId = 0
  /\ isLogin = TRUE /\ email = <<>> /\ password = <<>>
  /\ authFieldErrors = EmptyMap /\ loading = FALSE
  /\ net = EmptyBag
  /\ lastSent = <<>>

InFlight == BagCardinality(net)
RECURSIVE Send(_, _)
\* the requests of q join those in flight
Send(bag, q) == IF q = <<>> THEN bag ELSE Send(bag (+) SetToBag({Head(q)}), Tail(q))
\* the await on r settles: r leaves the network
Answered(bag, r) == bag (-) SetToBag({r})
Closure == [filterQ |-> filterQ, filterStatus |-> filterStatus,
            editing |-> editingTask # NoTask]

\* loadTasks up to its await: GET /tasks with the filters it closed over
loadTasks(stored, fq, fs) ==
  <<Request("list", stored, 0, [status |-> fs, q |-> fq], NoTask, NoCred, NoClosure)>>

\* useEffect(() => { if(userLoaded) loadTasks(); }, [filterQ, filterStatus, userLoaded])
\* after a render that changed a dependency
FilterEffect(stored, ul, fq, fs) ==
  IF <<ul, fq, fs>> # <<userLoaded, filterQ, filterStatus>> /\ ul
  THEN loadTasks(stored, fq, fs) ELSE <<>>

\* AuthForm is rendered only while userLoaded is false; unmounting drops its state
AuthFormAfter(ul, l, e, pw, fe, ld) ==
  /\ isLogin' = IF ul THEN TRUE ELSE l
  /\ email' = IF ul THEN <<>> ELSE e
  /\ password' = IF ul THEN <<>> ELSE pw
  /\ authFieldErrors' = IF ul THEN EmptyMap ELSE fe
  /\ loading' = IF ul THEN FALSE ELSE ld
AuthFormKept == AuthFormAfter(userLoaded', isLogin, email, password, authFieldErrors, loading)

\* the mount effect, then the render it caused and that render's effect
Mount ==
  /\ ~mounted
  /\ mounted' = TRUE
  /\ userLoaded' = (token # None)
  /\ LET sent == (IF token # None THEN loadTasks(token, filterQ, filterStatus) ELSE <<>>)
                 \o FilterEffect(token, token # None, filterQ, filterStatus)
     IN net' = Send(net, sent) /\ lastSent' = sent
  /\ AuthFormKept
  /\ UNCHANGED <<token, tasks, filterQ, filterStatus, title, description, editingTask,
                 fieldErrors, toast, showDeleteModal, deleteTaskId>>

(* AuthForm *)
handleEmailChange(v) ==
  /\ mounted /\ ~userLoaded /\ v # email
  /\ email' = v
  /\ authFieldErrors' = Put(authFieldErrors, "email", validateEmail(v))
  /\ lastSent' = <<>>
  /\ UNCHANGED <<token, mounted, appVars, isLogin, password, loading, net>>

handlePasswordChange(v) ==
  /\ mounted /\ ~userLoaded /\ v # password
  /\ password' = v
  /\ authFieldErrors' = Put(authFieldErrors, "password", validatePassword(v, isLogin))
  /\ lastSent' = <<>>
  /\ UNCHANGED <<token, mounted, appVars, isLogin, email, loading, net>>

setIsLogin ==
  /\ mounted /\ ~userLoaded
  /\ isLogin' = ~isLogin
  /\ lastSent' = <<>>
  /\ UNCHANGED <<token, mounted, appVars, email, password, authFieldErrors, loading, net>>

\* submit up to its await; the submit button is disabled while loading
submit ==
  /\ mounted /\ ~userLoaded /\ ~loading
  /\ LET emailErr == validateEmail(email)
         passwordErr == validatePassword(password, isLogin)
         sent == IF emailErr # "" \/ passwordErr # "" THEN <<>>
                 ELSE <<Request(IF isLogin THEN "login" ELSE "signup", token, 0, NoParams,
                                NoTask, [email |-> email, password |-> password], Closure)>>
     IN /\ sent # <<>> => InFlight < MaxInFlight
        /\ authFieldErrors' = Put(Put(EmptyMap, "email", emailErr), "password", passwordErr)
        /\ loading' = IF sent = <<>> THEN loading ELSE TRUE
        /\ net' = Send(net, sent)
        /\ lastSent' = sent
  /\ UNCHANGED <<token, mounted, appVars, isLogin, email, password>>

\* the try block of submit after its await: the token is stored, then
\* handleAuthSuccess runs, then the effect of the render it caused
AuthSucceeded(r, tok) ==
  LET sent == loadTasks(tok, r.closure.filterQ, r.closure.filterStatus)
              \o FilterEffect(tok, TRUE, filterQ, filterStatus)
  IN /\ token' = tok
     /\ toast' = Toast("Logged in successfully", "success")
     /\ userLoaded' = TRUE
     /\ AuthFormAfter(TRUE, isLogin, email, password, authFieldErrors, FALSE)
     /\ net' = Send(Answered(net, r), sent)
     /\ lastSent' = sent

\* mutant: onAuthSuccess is reached on the failure path too
AuthFailedStillEnters(r, msg) ==
  /\ toast' = Toast(msg, "danger")
  /\ userLoaded' = TRUE
  /\ AuthFormAfter(TRUE, isLogin, email, password, authFieldErrors, FALSE)
  /\ net' = Answered(net, r)
  /\ lastSent' = <<>>
  /\ UNCHANGED token

\* the catch block of submit
AuthFailed(r, msg) ==
  /\ toast' = Toast(msg, "danger")
  /\ AuthFormAfter(userLoaded, isLogin, email, password,
                   Put(authFieldErrors, "form", msg), FALSE)
  /\ lastSent' = <<>>
  /\ UNCHANGED <<token, userLoaded>>
  /\ net' = Answered(net, r)

\* submit after its await
AuthResponse(r, status, tok, errors, message) ==
  /\ r \in DOMAIN net /\ r.kind \in {"login", "signup"}
  /\ IF status = OK THEN AuthSucceeded(r, tok)
     ELSE AuthFailed(r, AuthFailMsg(status, errors, message))
  /\ UNCHANGED <<mounted, tasks, filterQ, filterStatus, title, description, editingTask,
                 fieldErrors, showDeleteModal, deleteTaskId>>

(* App: the task list *)
\* the Search button
Search ==
  /\ mounted /\ userLoaded /\ InFlight < MaxInFlight
  /\ LET sent == loadTasks(token, filterQ, filterStatus)
     IN net' = Send(net, sent) /\ lastSent' = sent
  /\ UNCHANGED <<token, mounted, appVars, authVars>>

\* mutant: the token is removed but the view is left as it is
SessionExpiredKeepsView(msg) ==
  /\ token' = None
  /\ toast' = Toast(msg, "danger")
  /\ UNCHANGED userLoaded

\* what loadTasks does with a 401, and App.js repeats in handleSubmit
SessionExpired(msg) ==
  /\ token' = None
  /\ userLoaded' = FALSE
  /\ toast' = Toast(msg, "danger")

\* loadTasks after its await
ListResponse(r, status, data) ==
  /\ r \in DOMAIN net /\ r.kind = "list"
  /\ net' = Answered(net, r)
  /\ lastSent' = <<>>
  /\ IF status = OK THEN tasks' = data /\ UNCHANGED <<token, userLoaded, toast>>
     ELSE IF status = 401
       THEN SessionExpired("Session expired, please login") /\ UNCHANGED tasks
     ELSE UNCHANGED <<token, userLoaded, toast, tasks>>
  /\ UNCHANGED <<mounted, filterQ, filterStatus, title, description, editingTask,
                 fieldErrors, showDeleteModal, deleteTaskId, authVars>>

setFilterQ(v) ==
  /\ mounted /\ userLoaded /\ v # filterQ /\ InFlight < MaxInFlight
  /\ filterQ' = v
  /\ LET sent == FilterEffect(token, userLoaded, v, filterStatus)
     IN net' = Send(net, sent) /\ lastSent' = sent
  /\ UNCHANGED <<token, mounted, userLoaded, tasks, filterStatus, title, description,
                 editingTask, fieldErrors, toast, showDeleteModal, deleteTaskId, authVars>>

setFilterStatus(v) ==
  /\ mounted /\ userLoaded /\ v # filterStatus /\ InFlight < MaxInFlight
  /\ filterStatus' = v
  /\ LET sent == FilterEffect(token, userLoaded, filterQ, v)
     IN net' = Send(net, sent) /\ lastSent' = sent
  /\ UNCHANGED <<token, mounted, userLoaded, tasks, filterQ, title, description,
                 editingTask, fieldErrors, toast, showDeleteModal, deleteTaskId, authVars>>

(* App: the task form *)
setTitle(v) ==
  /\ mounted /\ userLoaded /\ v # title
  /\ title' = v
  /\ fieldErrors' = IF Truthy(Get(fieldErrors, "title"))
                    THEN Put(fieldErrors, "title", Null) ELSE fieldErrors
  /\ lastSent' = <<>>
  /\ UNCHANGED <<token, mounted, userLoaded, tasks, filterQ, filterStatus, description,
                 editingTask, toast, showDeleteModal, deleteTaskId, authVars, net>>

setDescription(v) ==
  /\ mounted /\ userLoaded /\ v # description
  /\ description' = v
  /\ fieldErrors' = IF Truthy(Get(fieldErrors, "description"))
                    THEN Put(fieldErrors, "description", Null) ELSE fieldErrors
  /\ lastSent' = <<>>
  /\ UNCHANGED <<token, mounted, userLoaded, tasks, filterQ, filterStatus, title,
                 editingTask, toast, showDeleteModal, deleteTaskId, authVars, net>>

handleEdit(k) ==
  /\ mounted /\ userLoaded /\ k \in DOMAIN tasks
  /\ editingTask' = tasks[k]
  /\ title' = tasks[k].title
  /\ description' = tasks[k].description
  /\ fieldErrors' = EmptyMap
  /\ lastSent' = <<>>
  /\ UNCHANGED <<token, mounted, userLoaded, tasks, filterQ, filterStatus, toast,
                 showDeleteModal, deleteTaskId, authVars, net>>

\* the Cancel button of the form, rendered while editing
CancelEdit ==
  /\ mounted /\ userLoaded /\ editingTask # NoTask
  /\ editingTask' = NoTask /\ title' = "" /\ description' = ""
  /\ fieldErrors' = EmptyMap
  /\ lastSent' = <<>>
  /\ UNCHANGED <<token, mounted, userLoaded, tasks, filterQ, filterStatus, toast,
                 showDeleteModal, deleteTaskId, authVars, net>>

\* the body handleSubmit sends
SubmitBody ==
  [id |-> 0, title |-> title, description |-> description,
   status |-> IF editingTask # NoTask THEN editingTask.status ELSE "pending"]

\* handleSubmit up to its await; the title input is required
handleSubmit ==
  /\ mounted /\ userLoaded /\ title # "" /\ InFlight < MaxInFlight
  /\ fieldErrors' = EmptyMap
  /\ LET sent == <<Request(IF editingTask # NoTask THEN "update" ELSE "create", token,
                           editingTask.id, NoParams, SubmitBody, NoCred, Closure)>>
     IN net' = Send(net, sent) /\ lastSent' = sent
  /\ UNCHANGED <<token, mounted, userLoaded, tasks, filterQ, filterStatus, title,
                 description, editingTask, toast, showDeleteModal, deleteTaskId, authVars>>

RECURSIVE FieldMapFirstWins(_, _)
\* mutant: a path that already has a message keeps it
FieldMapFirstWins(errors, acc) ==
  IF errors = <<>> THEN acc
  ELSE FieldMapFirstWins(Tail(errors),
         IF Head(errors).path \in DOMAIN acc THEN acc
         ELSE Put(acc, Head(errors).path, Head(errors).msg))

RECURSIVE FieldMap(_, _)
\* errors.forEach(x => newField[x.path] = x.msg), from newField = acc
FieldMap(errors, acc) ==
  IF errors = <<>> THEN acc
  ELSE FieldMap(Tail(errors), Put(acc, Head(errors).path, Head(errors).msg))

\* handleSubmit after its await
SubmitResponse(r, status, errors) ==
  /\ r \in DOMAIN net /\ r.kind \in {"create", "update"}
  /\ IF status = OK
     THEN LET sent == loadTasks(token, r.closure.filterQ, r.closure.filterStatus)
          IN /\ title' = "" /\ description' = "" /\ editingTask' = NoTask
             /\ toast' = Toast(IF r.closure.editing THEN "Task updated"
                               ELSE "Task added", "success")
             /\ lastSent' = sent
             /\ UNCHANGED <<token, userLoaded, fieldErrors>>
             /\ net' = Send(Answered(net, r), sent)
     ELSE /\ lastSent' = <<>>
          /\ UNCHANGED <<title, description, editingTask>>
          /\ IF status = 400
             THEN /\ toast' = Toast("Fix the form errors", "danger")
                  /\ fieldErrors' = FieldMap(errors, EmptyMap)
                  /\ UNCHANGED <<token, userLoaded>>
             ELSE IF status = 401
               THEN SessionExpired("Session expired") /\ UNCHANGED fieldErrors
             ELSE /\ toast' = Toast("Request failed", "danger")
                  /\ UNCHANGED <<token, userLoaded, fieldErrors>>
          /\ net' = Answered(net, r)
  /\ UNCHANGED <<mounted, tasks, filterQ, filterStatus, showDeleteModal, deleteTaskId,
                 authVars>>

(* App: the buttons of a listed task *)
\* mutant: the toggle only ever marks a task done
ToggleBodyDone(task) == [task EXCEPT !.status = "done"]

\* { ...task, status: task.status==='pending'?'done':'pending' }
ToggleBody(task) ==
  [task EXCEPT !.status = IF task.status = "pending" THEN "done" ELSE "pending"]

\* toggleStatus up to its await
toggleStatus(k) ==
  /\ mounted /\ userLoaded /\ k \in DOMAIN tasks /\ InFlight < MaxInFlight
  /\ LET sent == <<Request("toggle", token, tasks[k].id, NoParams, ToggleBody(tasks[k]),
                           NoCred, Closure)>>
     IN net' = Send(net, sent) /\ lastSent' = sent
  /\ UNCHANGED <<token, mounted, appVars, authVars>>

\* toggleStatus after its await
ToggleResponse(r, status) ==
  /\ r \in DOMAIN net /\ r.kind = "toggle"
  /\ IF status = OK
     THEN LET sent == loadTasks(token, r.closure.filterQ, r.closure.filterStatus)
          IN /\ net' = Send(Answered(net, r), sent)
             /\ lastSent' = sent
             /\ UNCHANGED toast
     ELSE /\ net' = Answered(net, r)
          /\ lastSent' = <<>>
          /\ toast' = Toast("Update failed", "danger")
  /\ UNCHANGED <<token, mounted, userLoaded, tasks, filterQ, filterStatus, title,
                 description, editingTask, fieldErrors, showDeleteModal, deleteTaskId,
                 authVars>>

confirmDelete(k) ==
  /\ mounted /\ userLoaded /\ k \in DOMAIN tasks
  /\ deleteTaskId' = tasks[k].id
  /\ showDeleteModal' = TRUE
  /\ lastSent' = <<>>
  /\ UNCHANGED <<token, mounted, userLoaded, tasks, filterQ, filterStatus, title,
                 description, editingTask, fieldErrors, toast, authVars, net>>

\* the modal's onHide and its Cancel button
HideDeleteModal ==
  /\ mounted /\ userLoaded /\ showDeleteModal
  /\ showDeleteModal' = FALSE
  /\ lastSent' = <<>>
  /\ UNCHANGED <<token, mounted, userLoaded, tasks, filterQ, filterStatus, title,
                 description, editingTask, fieldErrors, toast, deleteTaskId, authVars, net>>

\* handleDeleteConfirm up to its await
handleDeleteConfirm ==
  /\ mounted /\ userLoaded /\ showDeleteModal /\ InFlight < MaxInFlight
  /\ LET sent == <<Request("delete", token, deleteTaskId, NoParams, NoTask, NoCred, Closure)>>
     IN net' = Send(net, sent) /\ lastSent' = sent
  /\ UNCHANGED <<token, mounted, appVars, authVars>>

\* handleDeleteConfirm after its await
DeleteResponse(r, status) ==
  /\ r \in DOMAIN net /\ r.kind = "delete"
  /\ IF status = OK
     THEN LET sent == loadTasks(token, r.closure.filterQ, r.closure.filterStatus)
          IN /\ net' = Send(Answered(net, r), sent)
             /\ lastSent' = sent
             /\ toast' = Toast("Task deleted", "success")
     ELSE /\ net' = Answered(net, r)
          /\ lastSent' = <<>>
          /\ toast' = Toast("Delete failed", "danger")
  /\ showDeleteModal' = FALSE
  /\ deleteTaskId' = 0
  /\ UNCHANGED <<token, mounted, userLoaded, tasks, filterQ, filterStatus, title,
                 description, editingTask, fieldErrors, authVars>>

\* mutant: the task list is not emptied
logoutKeepsTasks ==
  /\ mounted /\ userLoaded
  /\ token' = None
  /\ userLoaded' = FALSE
  /\ toast' = Toast("Logged out", "success")
  /\ lastSent' = <<>>
  /\ UNCHANGED <<mounted, tasks, filterQ, filterStatus, title, description, editingTask,
                 fieldErrors, showDeleteModal, deleteTaskId, authVars, net>>

logout ==
  /\ mounted /\ userLoaded
  /\ token' = None
  /\ userLoaded' = FALSE
  /\ tasks' = <<>>
  /\ toast' = Toast("Logged out", "success")
  /\ lastSent' = <<>>
  /\ UNCHANGED <<mounted, filterQ, filterStatus, title, description, editingTask,
                 fieldErrors, showDeleteModal, deleteTaskId, authVars, net>>

\* the Toast's onClose: the close button, or autohide after the delay
ToastClose ==
  /\ mounted /\ toast.show
  /\ toast' = [toast EXCEPT !.show = FALSE]
  /\ lastSent' = <<>>
  /\ UNCHANGED <<token, mounted, userLoaded, tasks, filterQ, filterStatus, title,
                 description, editingTask, fieldErrors, showDeleteModal, deleteTaskId,
                 authVars, net>>

(* ------------------------- specifications ----------------------------- *)
ListAnswered ==
  \E r \in DOMAIN net :
    \/ \E data \in TaskLists : ListResponse(r, OK, data)
    \/ \E st \in FailStatuses : ListResponse(r, st, <<>>)
SubmitAnswered ==
  \E r \in DOMAIN net :
    \/ SubmitResponse(r, OK, <<>>)
    \/ \E st \in FailStatuses : SubmitResponse(r, st, <<>>)
ToggleAnswered ==
  \E r \in DOMAIN net : \E st \in {OK} \cup FailStatuses : ToggleResponse(r, st)
DeleteAnswered ==
  \E r \in DOMAIN net : \E st \in {OK} \cup FailStatuses : DeleteResponse(r, st)
AuthAnswered ==
  \E r \in DOMAIN net :
    \/ \E tok \in Tokens : AuthResponse(r, OK, tok, <<>>, "")
    \/ \E st \in FailStatuses : AuthResponse(r, st, 1, <<>>, "")
TypeCredentials ==
  handleEmailChange(GoodEmail) \/ handlePasswordChange(GoodPassword)

\* the whole client, the user typing one valid email and password
Next ==
  \/ Mount
  \/ TypeCredentials
  \/ submit
  \/ AuthAnswered
  \/ Search
  \/ \E v \in FilterStatuses : setFilterStatus(v)
  \/ ListAnswered
  \/ \E k \in 1..NumTasks : handleEdit(k)
  \/ handleSubmit
  \/ SubmitAnswered
  \/ \E k \in 1..NumTasks : toggleStatus(k)
  \/ ToggleAnswered
  \/ \E k \in 1..NumTasks : confirmDelete(k)
  \/ HideDeleteModal
  \/ handleDeleteConfirm
  \/ DeleteAnswered
  \/ logout

Spec == Init /\ [][Next]_vars

\* the session: logging in and out around requests that are still in flight
NextSession ==
  \/ Mount
  \/ TypeCredentials
  \/ submit
  \/ AuthAnswered
  \/ Search
  \/ \E v \in FilterQs : setFilterQ(v)
  \/ ListAnswered
  \/ \E k \in 1..NumTasks : toggleStatus(k)
  \/ ToggleAnswered
  \/ logout

SpecSession == Init /\ [][NextSession]_vars

\* the auth form: anything typed, any answer of the auth endpoints
NextAuth ==
  \/ Mount
  \/ \E v \in Emails : handleEmailChange(v)
  \/ \E v \in Passwords : handlePasswordChange(v)
  \/ setIsLogin
  \/ submit
  \/ \E r \in DOMAIN net :
       \/ \E tok \in Tokens : AuthResponse(r, OK, tok, <<>>, "")
       \/ \E st \in FailStatuses : AuthResponse(r, st, 1, <<>>, "")
       \/ \E errors \in AuthErrorLists, message \in ServerMessages :
            AuthResponse(r, 400, 1, errors, message)
  \/ \E r \in DOMAIN net : \E st \in {OK} \cup FailStatuses : ListResponse(r, st, <<>>)
  \/ logout
  \/ ToastClose

SpecAuth == Init /\ [][NextAuth]_vars

\* the task form: anything typed, any answer to a submission
NextForm ==
  \/ Mount
  \/ ListAnswered
  \/ \E v \in Titles : setTitle(v)
  \/ \E v \in Descriptions : setDescription(v)
  \/ \E k \in 1..NumTasks : handleEdit(k)
  \/ CancelEdit
  \/ handleSubmit
  \/ \E r \in DOMAIN net :
       \/ SubmitResponse(r, OK, <<>>)
       \/ \E st \in FailStatuses \ {400} : SubmitResponse(r, st, <<>>)
       \/ \E errors \in ErrorLists : SubmitResponse(r, 400, errors)

SpecForm == Init /\ [][NextForm]_vars

\* the requests that carry a status: creating, editing and toggling tasks
NextTasks ==
  \/ Mount
  \/ ListAnswered
  \/ \E v \in Titles : setTitle(v)
  \/ \E k \in 1..NumTasks : handleEdit(k)
  \/ CancelEdit
  \/ handleSubmit
  \/ SubmitAnswered
  \/ \E k \in 1..NumTasks : toggleStatus(k)
  \/ ToggleAnswered

SpecTasks == Init /\ [][NextTasks]_vars

(* ============================== claims ================================ *)
Range(q) == {q[n] : n \in DOMAIN q}

\* C1: whenever a task request (list, create/update, status toggle, delete)
\* is answered 401, the step that handles the answer leaves no token in
\* local storage and userLoaded false.
C1_Every401ClearsSession ==
  [][\A r \in DOMAIN net :
       (\/ ListResponse(r, 401, <<>>)
        \/ SubmitResponse(r, 401, <<>>)
        \/ ToggleResponse(r, 401)
        \/ DeleteResponse(r, 401))
       => (token' = None /\ ~userLoaded')]_vars

\* C2: no step of the client hands more than one request to the network:
\* one user action never has two of its requests in flight together.
C2_OneRequestPerAction == Len(lastSent) <= 1

\* C6: whenever a request of any kind fails, with any failure status or a
\* network error, the step that handles the failure shows a danger toast.
C6_EveryFailureToasts ==
  [][\A r \in DOMAIN net : \A st \in FailStatuses :
       (\/ ListResponse(r, st, <<>>)
        \/ SubmitResponse(r, st, <<>>)
        \/ ToggleResponse(r, st)
        \/ DeleteResponse(r, st)
        \/ AuthResponse(r, st, 1, <<>>, ""))
       => (toast'.show /\ toast'.variant = "danger" /\ toast' # toast)]_vars

\* C10: the status an update request carries is the status the task has in
\* the displayed list when the form is submitted.
C10_UpdateKeepsDisplayedStatus ==
  \A r \in Range(lastSent) : r.kind = "update" =>
    \A k \in DOMAIN tasks : tasks[k].id = r.id => r.body.status = tasks[k].status

\* C3: the token is written only by the step that handles a successful
\* answer of login or signup, and userLoaded turns true only in a step that
\* ends with a token stored (that step, or the mount with a token stored by
\* an earlier one); a failed auth request, and a submit that validation
\* stops before any request, leave token and userLoaded as they were and
\* leave an error message on the form.
C3_TokenOnlyOnAuthSuccess ==
  [][/\ (token' # token /\ token' # None)
          => \E r \in DOMAIN net : AuthResponse(r, OK, token', <<>>, "")
     /\ (userLoaded' /\ ~userLoaded)
          => /\ token' # None
             /\ Mount \/ \E r \in DOMAIN net : AuthResponse(r, OK, token', <<>>, "")
     /\ \A r \in DOMAIN net :
          (r.kind \in {"login", "signup"} /\ net' = Answered(net, r))
            => \A st \in FailStatuses, errors \in AuthErrorLists, message \in ServerMessages :
                 AuthResponse(r, st, 1, errors, message)
                   => /\ token' = token /\ userLoaded' = userLoaded
                      /\ Truthy(Get(authFieldErrors', "form"))
     /\ (submit /\ lastSent' = <<>>)
          => /\ token' = token /\ userLoaded' = userLoaded /\ net' = net
             /\ \/ Truthy(Get(authFieldErrors', "email"))
                \/ Truthy(Get(authFieldErrors', "password"))]_vars

\* a failed login has left its message on the form of a logged-out view
C3_Witness ==
  /\ Truthy(Get(authFieldErrors, "form"))
  /\ toast = Toast(authFieldErrors["form"], "danger")
  /\ token = None /\ ~userLoaded /\ ~loading

\* C4: the step that runs logout ends with no token in local storage,
\* userLoaded false and an empty task list.
C4_LogoutClears ==
  [][logout => (token' = None /\ ~userLoaded' /\ tasks' = <<>>)]_vars

\* logout has just run while a request of the session was still in flight
C4_Witness ==
  /\ toast = Toast("Logged out", "success")
  /\ token = None /\ ~userLoaded /\ tasks = <<>>
  /\ \E r \in DOMAIN net : r.kind = "list" /\ r.Authorization # NoHeader

\* C5: each request a step hands to the client carries 'Bearer <token>' for
\* the token then in local storage, and no Authorization header when none is
\* stored.
C5_HeaderIsStoredToken ==
  \A r \in Range(lastSent) :
    /\ token = None => r.Authorization = NoHeader
    /\ token # None => r.Authorization = <<"Bearer", token>>

\* a list request sent after the token was cleared: it carries no header
C5_Witness ==
  /\ token = None
  /\ \E r \in Range(lastSent) : r.kind = "list" /\ r.Authorization = NoHeader

\* C7: a 400 answer to the task form sets fieldErrors to the map from the
\* paths of the server's errors to their messages (the later error of a
\* path giving its message) and leaves title, description, editingTask, the
\* task list, the token and userLoaded alone; any failure leaves the inputs
\* and editingTask alone, and success resets them.
C7_FieldErrorsOn400 ==
  [][\A r \in DOMAIN net :
       (r.kind \in {"create", "update"} /\ CopiesIn(r, net') < CopiesIn(r, net))
         => /\ \A errors \in ErrorLists :
                 SubmitResponse(r, 400, errors)
                   => /\ DOMAIN fieldErrors' = {errors[n].path : n \in DOMAIN errors}
                      /\ \A n \in DOMAIN errors :
                           (\A m \in DOMAIN errors :
                              m > n => errors[m].path # errors[n].path)
                             => fieldErrors'[errors[n].path] = errors[n].msg
                      /\ UNCHANGED <<title, description, editingTask, tasks, token,
                                     userLoaded>>
            /\ \A st \in FailStatuses :
                 SubmitResponse(r, st, <<>>)
                   => UNCHANGED <<title, description, editingTask>>
            /\ SubmitResponse(r, OK, <<>>)
                 => (title' = "" /\ description' = "" /\ editingTask' = NoTask)]_vars

\* a 400 with an error for each field has been handled while editing
C7_Witness ==
  /\ toast = Toast("Fix the form errors", "danger")
  /\ DOMAIN fieldErrors = Paths
  /\ editingTask # NoTask /\ title # ""

Opposite(status) == CHOOSE s \in Statuses : s # status

\* C8: every status in a request body is pending or done; a create carries
\* pending, a toggle of a listed task the opposite of its status, an update
\* the status of the task being edited.
C8_SentStatuses ==
  /\ \A r \in DOMAIN net :
       /\ r.kind \in {"create", "update", "toggle"} => r.body.status \in Statuses
       /\ r.kind = "create" => r.body.status = "pending"
  /\ \A r \in Range(lastSent) :
       /\ r.kind = "toggle" =>
            \A k \in DOMAIN tasks :
              tasks[k].id = r.id => r.body.status = Opposite(tasks[k].status)
       /\ r.kind = "update" =>
            r.id = editingTask.id /\ r.body.status = editingTask.status

\* a toggle of a done task and a create are in flight together
C8_Witness ==
  /\ \E r \in Range(lastSent) : r.kind = "toggle" /\ r.body.status = "pending"
  /\ \E r \in DOMAIN net : r.kind = "create"

\* C9: userLoaded is true only while a token is in local storage.
C9_LoadedImpliesToken == userLoaded => token # None

\* a new session is open while a request of an earlier session, sent with
\* another token, still awaits its answer
C9_Witness ==
  /\ userLoaded /\ token # None
  /\ \E r \in DOMAIN net :
       r.Authorization # NoHeader /\ r.Authorization # <<"Bearer", token>>

====
